---- MODULE Spec2Model ----
(***************************************************************************)
(* CardPool of src/adaptivecards-pool.ts: a name-keyed cache of            *)
(* AdaptiveCard instances with two JS Sets used as MRU queues (cardSet for *)
(* all cards, statefulCardSet for the cards marked stateful) and one       *)
(* plain object (cardPool) as storage.  A JS Set iterates in insertion     *)
(* order, so each Set is a sequence without duplicates, oldest first.      *)
(***************************************************************************)
EXTENDS Integers, Sequences, FiniteSets, TLC

\* ---------------------------------------------------------------- bounds
\* how many ordinary card names the callers use
NumNames == 5
\* how many card names the callers of SpecCapacities use
NumFewNames == 3
\* the largest capacity given to the constructor in SpecCapacities
MaxCapacityArg == 6

\* ---------------------------------------------------------------- values
AllNames == <<"a", "b", "c", "d", "e", "f", "g", "h">>
\* card names the callers choose freely
PlainNames == {AllNames[i] : i \in 1..NumNames}
\* cardPool is the object literal {}: it inherits the properties of
\* Object.prototype, so cardPool["constructor"] is defined from the start
InheritedNames == {"constructor"}
\* type CardName = string
CardName == PlainNames \cup InheritedNames
NoName == "-"

undefined == [kind |-> "undefined"]
\* the value of ({})["constructor"]: the function Object
ObjectPrototype(cardName) == [kind |-> "Function", cardName |-> cardName]

NoPayload == "undefined"
\* payloads the callers send with a name: one that parses for every name,
\* a second one for the names of TwoPayloadNames, and one that does not parse
TwoPayloadNames == {"a"}
GoodPayloads(cardName) ==
  IF cardName \in TwoPayloadNames THEN {"p1", "p2"} ELSE {"p1"}
BadPayloads == {"bad"}
CardPayload(cardName) == GoodPayloads(cardName) \cup BadPayloads

\* card.parse(cardPayload) is the only step of the factory that depends on
\* the payload; it raises on a payload it cannot digest
ParseThrows(cardPayload) == cardPayload \in BadPayloads

\* new AdaptiveCard(); parse(payload); setCustomProperty('cardName', name)
createCardOnDemand(cardName, cardPayload) ==
  [kind |-> "AdaptiveCard", cardName |-> cardName, payload |-> cardPayload]

\* the callbacks of main() pass a card together with the name bound to it
StatefulCards(cardName) ==
  {createCardOnDemand(cardName, p) : p \in GoodPayloads(cardName)}

Max(a, b) == IF a >= b THEN a ELSE b
\* Math.ceil(n / d) for n >= 0, d > 0
Ceil(n, d) == (n + d - 1) \div d

\* arguments given to the constructor; all of them yield the floor of 4
CardPoolCapacityArgs == -1..4
\* arguments that also yield capacities above the floor
WideCapacityArgs == -1..MaxCapacityArg
\* the card names of the callers of SpecCapacities
FewNames == {AllNames[i] : i \in 1..NumFewNames}

CapacityCards(cardPoolCapacity) == Max(4, cardPoolCapacity)
\* a constructor that rounds the quarter down
CapacityStatefulCards_roundsDown(capacityCards) == capacityCards \div 4
CapacityStatefulCards(capacityCards) == Ceil(capacityCards, 4)

\* ---------------------------------------------------------------- state
VARIABLES
  CAPACITY_CARDS,           \* readonly, set by the constructor
  CAPACITY_STATEFUL_CARDS,  \* readonly, set by the constructor
  cardPool,                 \* own properties of the storage object
  cardSet,                  \* Set<CardName>, oldest first
  statefulCardSet,          \* Set<CardName>, oldest first
  ret,                      \* what the last call did and returned
  marked                    \* history, kept by SpecCapacities: the names of
                            \* the calls that came with a card, the name of
                            \* the latest such call last

vars == <<CAPACITY_CARDS, CAPACITY_STATEFUL_CARDS, cardPool, cardSet,
          statefulCardSet, ret, marked>>

\* ------------------------------------------------------- JS primitives
Range(s) == {s[i] : i \in 1..Len(s)}

\* this.cardPool[cardName]: own property first, then the prototype chain
Get(pool, cardName) ==
  IF cardName \in DOMAIN pool THEN pool[cardName]
  ELSE IF cardName \in InheritedNames THEN ObjectPrototype(cardName)
  ELSE undefined

\* this.cardPool[cardName] = card
Put(pool, cardName, card) ==
  [n \in (DOMAIN pool) \cup {cardName} |-> IF n = cardName THEN card ELSE pool[n]]

\* delete this.cardPool[cardName]: removes an own property, if any
Delete(pool, cardName) == [n \in (DOMAIN pool) \ {cardName} |-> pool[n]]

\* Set.prototype.delete
SetDelete(s, cardName) == SelectSeq(s, LAMBDA x : x # cardName)

\* Set.prototype.add: appends unless already a member
SetAdd(s, cardName) == IF cardName \in Range(s) THEN s ELSE Append(s, cardName)

\* add without the delete before it: a member keeps its old place
MoveToEnd_addOnly(s, cardName) == SetAdd(s, cardName)

\* delete followed by an insert at the LRU end
MoveToEnd_toFront(s, cardName) == <<cardName>> \o SetDelete(s, cardName)

\* delete followed by add: move to the end (MRU position)
MoveToEnd(s, cardName) == SetAdd(SetDelete(s, cardName), cardName)

\* ------------------------------------------------------- purgeUnusedCard
\* first half: dequeue the LRU stateful card when the stateful set is over
\* capacity.  Result: the name dequeued, NoName if none.
DequeuedStateful(ss, capS) == IF Len(ss) > capS THEN ss[1] ELSE NoName

\* a first half that reports the LRU stateful card and leaves it queued
AfterDequeue_keepsCard(ss, capS) == ss

\* a first half that lets the stateful set grow one name further
AfterDequeue_lateByOne(ss, capS) ==
  IF Len(ss) > capS + 1 THEN SetDelete(ss, ss[1]) ELSE ss

AfterDequeue(ss, capS) ==
  IF Len(ss) > capS THEN SetDelete(ss, ss[1]) ELSE ss

\* a loop that forgets the test of line 73: the oldest name, stateful or not
FirstNonStateful_anyCard(cs, ss) == IF cs = << >> THEN NoName ELSE cs[1]

\* a loop that scans from the MRU end
FirstNonStateful_newestFirst(cs, ss) ==
  LET idx == {i \in 1..Len(cs) : cs[i] \notin Range(ss)}
  IN IF idx = {} THEN NoName
     ELSE cs[CHOOSE i \in idx : \A j \in idx : i >= j]

\* the loop of the second half: the first name of cs, in iteration order,
\* that is not in ss; NoName when every name of cs is in ss
FirstNonStateful(cs, ss) ==
  LET idx == {i \in 1..Len(cs) : cs[i] \notin Range(ss)}
  IN IF idx = {} THEN NoName
     ELSE cs[CHOOSE i \in idx : \A j \in idx : i <= j]

\* a second half that lets the total set grow one name further
PurgedCard_lateByOne(cs, ss, capC) ==
  IF Len(cs) > capC + 1 THEN FirstNonStateful(cs, ss) ELSE NoName

\* second half: the name purged from cardSet and cardPool, NoName if none;
\* ss is the stateful set after the first half
PurgedCard(cs, ss, capC) ==
  IF Len(cs) > capC THEN FirstNonStateful(cs, ss) ELSE NoName

\* a purge whose first half drops the dequeued card from storage and from
\* the total set as well
purgeUnusedCard_dequeueDeletes(pool, cs, ss, capC, capS) ==
  LET dequeued == DequeuedStateful(ss, capS)
      ss1 == AfterDequeue(ss, capS)
      pool1 == IF dequeued = NoName THEN pool ELSE Delete(pool, dequeued)
      cs1 == IF dequeued = NoName THEN cs ELSE SetDelete(cs, dequeued)
      purged == PurgedCard(cs1, ss1, capC)
  IN [cardPool |-> IF purged = NoName THEN pool1 ELSE Delete(pool1, purged),
      cardSet |-> IF purged = NoName THEN cs1 ELSE SetDelete(cs1, purged),
      statefulCardSet |-> ss1,
      dequeued |-> dequeued,
      purged |-> purged,
      purgeRan |-> TRUE]

\* a purge whose loop lacks the break of line 77: every non-stateful card
\* goes once the total set is over capacity
purgeUnusedCard_noBreak(pool, cs, ss, capC, capS) ==
  LET dequeued == DequeuedStateful(ss, capS)
      ss1 == AfterDequeue(ss, capS)
      purged == PurgedCard(cs, ss1, capC)
      keep == SelectSeq(cs, LAMBDA n : n \in Range(ss1))
  IN [cardPool |-> IF purged = NoName THEN pool
                   ELSE [n \in DOMAIN pool \cap Range(keep) |-> pool[n]],
      cardSet |-> IF purged = NoName THEN cs ELSE keep,
      statefulCardSet |-> ss1,
      dequeued |-> dequeued,
      purged |-> purged,
      purgeRan |-> TRUE]

purgeUnusedCard(pool, cs, ss, capC, capS) ==
  LET dequeued == DequeuedStateful(ss, capS)
      ss1 == AfterDequeue(ss, capS)
      purged == PurgedCard(cs, ss1, capC)
  IN [cardPool |-> IF purged = NoName THEN pool ELSE Delete(pool, purged),
      cardSet |-> IF purged = NoName THEN cs ELSE SetDelete(cs, purged),
      statefulCardSet |-> ss1,
      dequeued |-> dequeued,
      purged |-> purged,
      purgeRan |-> TRUE]

\* --------------------------------------------------------- markCardInuse
\* the condition of line 44: a card is found under the name, or one is given
InuseGuard(pool, cardName, statefulCard) ==
  Get(pool, cardName) # undefined \/ statefulCard # undefined

\* a test that takes every call for a stateful one
IsAdaptiveCard_always(card) == TRUE

\* statefulCard instanceof AdaptiveCard
IsAdaptiveCard(card) == card.kind = "AdaptiveCard"

\* a plain assignment in place of ??=
NullishAssign_overwrites(pool, cardName, statefulCard) ==
  Put(pool, cardName, statefulCard)

\* this.cardPool[cardName] ??= statefulCard
NullishAssign(pool, cardName, statefulCard) ==
  IF Get(pool, cardName) = undefined THEN Put(pool, cardName, statefulCard)
  ELSE pool

MarkInuse(pool, cs, ss, capC, capS, cardName, statefulCard) ==
  IF InuseGuard(pool, cardName, statefulCard)
  THEN LET cs1 == MoveToEnd(cs, cardName)
           stateful == IsAdaptiveCard(statefulCard)
           ss1 == IF stateful THEN MoveToEnd(ss, cardName) ELSE ss
           pool1 == IF stateful THEN NullishAssign(pool, cardName, statefulCard)
                    ELSE pool
       IN purgeUnusedCard(pool1, cs1, ss1, capC, capS)
  ELSE [cardPool |-> pool, cardSet |-> cs, statefulCardSet |-> ss,
        dequeued |-> NoName, purged |-> NoName, purgeRan |-> FALSE]

\* --------------------------------------------------------------- actions
\* constructor(cardPoolCapacity)
Constructed(cardPoolCapacity) ==
  /\ CAPACITY_CARDS = CapacityCards(cardPoolCapacity)
  /\ CAPACITY_STATEFUL_CARDS = CapacityStatefulCards(CAPACITY_CARDS)
  /\ cardPool = << >>
  /\ cardSet = << >>
  /\ statefulCardSet = << >>
  /\ marked = << >>
  /\ ret = [op |-> "new", cardName |-> NoName, payload |-> NoPayload,
            statefulCard |-> undefined, found |-> FALSE,
            result |-> undefined, factory |-> FALSE, threw |-> FALSE,
            dequeued |-> NoName, purged |-> NoName, purgeRan |-> FALSE,
            cardPoolCapacity |-> cardPoolCapacity]

Init == \E cardPoolCapacity \in CardPoolCapacityArgs :
          Constructed(cardPoolCapacity)

\* a getCard that builds a card whenever a payload comes with the call
ShouldCreate_wheneverPayload(pool, cardName, cardPayload) ==
  cardPayload # NoPayload

\* lines 34-36: the factory is called when no card is found under the name
\* and a payload is given
ShouldCreate(pool, cardName, cardPayload) ==
  Get(pool, cardName) = undefined /\ cardPayload # NoPayload

\* a getCard that marks the name in use before it builds the card
AfterThrow_markedFirst(pool, cs, ss, cardName) ==
  [cardPool |-> pool, cardSet |-> MoveToEnd(cs, cardName),
   statefulCardSet |-> ss]

\* what an exception of createCardOnDemand leaves behind: the right-hand
\* side of line 37 raises before the assignment, and line 39 is not reached
AfterThrow(pool, cs, ss, cardName) ==
  [cardPool |-> pool, cardSet |-> cs, statefulCardSet |-> ss]

\* public getCard(cardName, cardPayload?)
getCard(cardName, cardPayload) ==
  LET found == Get(cardPool, cardName) # undefined
      create == ShouldCreate(cardPool, cardName, cardPayload)
      given == IF cardPayload = NoPayload THEN NoPayload ELSE "given"
  IN IF create /\ ParseThrows(cardPayload)
     THEN LET t == AfterThrow(cardPool, cardSet, statefulCardSet, cardName)
          IN /\ cardPool' = t.cardPool
             /\ cardSet' = t.cardSet
             /\ statefulCardSet' = t.statefulCardSet
             /\ ret' = [op |-> "getCard", cardName |-> cardName,
                        payload |-> given, statefulCard |-> undefined,
                        found |-> found, result |-> undefined,
                        factory |-> TRUE, threw |-> TRUE,
                        dequeued |-> NoName, purged |-> NoName,
                        purgeRan |-> FALSE]
     ELSE LET pool1 == IF create
                       THEN Put(cardPool, cardName,
                                createCardOnDemand(cardName, cardPayload))
                       ELSE cardPool
              m == MarkInuse(pool1, cardSet, statefulCardSet, CAPACITY_CARDS,
                             CAPACITY_STATEFUL_CARDS, cardName, undefined)
          IN /\ cardPool' = m.cardPool
             /\ cardSet' = m.cardSet
             /\ statefulCardSet' = m.statefulCardSet
             /\ ret' = [op |-> "getCard", cardName |-> cardName,
                        payload |-> given, statefulCard |-> undefined,
                        found |-> found,
                        result |-> Get(m.cardPool, cardName),
                        factory |-> create, threw |-> FALSE,
                        dequeued |-> m.dequeued, purged |-> m.purged,
                        purgeRan |-> m.purgeRan]

\* public markCardInuse(cardName, statefulCard?)
markCardInuse(cardName, statefulCard) ==
  LET m == MarkInuse(cardPool, cardSet, statefulCardSet, CAPACITY_CARDS,
                     CAPACITY_STATEFUL_CARDS, cardName, statefulCard)
      given == [kind |-> "given"]
  IN /\ cardPool' = m.cardPool
     /\ cardSet' = m.cardSet
     /\ statefulCardSet' = m.statefulCardSet
     /\ ret' = [op |-> "markCardInuse", cardName |-> cardName,
                payload |-> NoPayload,
                statefulCard |-> IF statefulCard = undefined THEN undefined
                                 ELSE given,
                found |-> Get(cardPool, cardName) # undefined,
                result |-> undefined, factory |-> FALSE, threw |-> FALSE,
                dequeued |-> m.dequeued, purged |-> m.purged,
                purgeRan |-> m.purgeRan]

\* calls with ordinary card names
GetCardCall ==
  /\ \E cardName \in PlainNames :
       \E cardPayload \in CardPayload(cardName) \cup {NoPayload} :
         getCard(cardName, cardPayload)
  /\ UNCHANGED <<CAPACITY_CARDS, CAPACITY_STATEFUL_CARDS, marked>>

MarkCardInuseCall ==
  /\ \E cardName \in PlainNames :
       \E statefulCard \in StatefulCards(cardName) \cup {undefined} :
         markCardInuse(cardName, statefulCard)
  /\ UNCHANGED <<CAPACITY_CARDS, CAPACITY_STATEFUL_CARDS, marked>>

Next == GetCardCall \/ MarkCardInuseCall

Spec == Init /\ [][Next]_vars

\* calls with any string as the card name, a property name of
\* Object.prototype included
GetCardAnyName ==
  /\ \E cardName \in CardName :
       \E cardPayload \in CardPayload(cardName) \cup {NoPayload} :
         getCard(cardName, cardPayload)
  /\ UNCHANGED <<CAPACITY_CARDS, CAPACITY_STATEFUL_CARDS, marked>>

MarkCardInuseAnyName ==
  /\ \E cardName \in CardName :
       \E statefulCard \in StatefulCards(cardName) \cup {undefined} :
         markCardInuse(cardName, statefulCard)
  /\ UNCHANGED <<CAPACITY_CARDS, CAPACITY_STATEFUL_CARDS, marked>>

NextAnyName == GetCardAnyName \/ MarkCardInuseAnyName

SpecAnyName == Init /\ [][NextAnyName]_vars

\* pools of every capacity up to MaxCapacityArg, a few names, and the
\* history of the calls that came with a card
InitCapacities == \E cardPoolCapacity \in WideCapacityArgs :
                    Constructed(cardPoolCapacity)

GetCardFew ==
  /\ \E cardName \in FewNames :
       \E cardPayload \in CardPayload(cardName) \cup {NoPayload} :
         getCard(cardName, cardPayload)
  /\ UNCHANGED <<CAPACITY_CARDS, CAPACITY_STATEFUL_CARDS, marked>>

MarkCardInuseFew ==
  /\ \E cardName \in FewNames :
       \E statefulCard \in StatefulCards(cardName) \cup {undefined} :
         /\ markCardInuse(cardName, statefulCard)
         /\ marked' = IF statefulCard = undefined THEN marked
                      ELSE Append(SelectSeq(marked,
                                            LAMBDA n : n # cardName),
                                  cardName)
  /\ UNCHANGED <<CAPACITY_CARDS, CAPACITY_STATEFUL_CARDS>>

NextCapacities == GetCardFew \/ MarkCardInuseFew

SpecCapacities == InitCapacities /\ [][NextCapacities]_vars

\* ================================================================ claims
Last(s) == s[Len(s)]
Without(s, x) == SelectSeq(s, LAMBDA y : y # x)
\* the names a step removes from the total set or from storage
Removed(n) ==
  \/ n \in Range(cardSet) /\ n \notin Range(cardSet')
  \/ n \in DOMAIN cardPool /\ n \notin DOMAIN cardPool'
\* the total set as the purge of the step found it: the name of the call
\* moved to its end
BeforePurge == Append(Without(cardSet, ret'.cardName), ret'.cardName)

\* C1: a name is removed from storage or from the total set only by the
\* purge, and the name purged is not a member of the stateful set at that
\* moment (the stateful set the call leaves); a stateful name keeps its card.
C1_StatefulNeverPurged ==
  [][\A n \in CardName :
       Removed(n) => /\ ret'.purged = n
                     /\ n \notin Range(statefulCardSet')
                     /\ n \notin Range(cardSet')
                     /\ n \notin DOMAIN cardPool']_vars

\* capacity 4/1: a, b, c, d fetched, a marked stateful, e fetched: b is
\* purged and a, the stateful card, keeps its place and its card
C1_Witness ==
  /\ CAPACITY_CARDS = 4 /\ CAPACITY_STATEFUL_CARDS = 1
  /\ ret.op = "getCard" /\ ret.cardName = "e" /\ ret.purged = "b"
  /\ cardSet = <<"c", "d", "a", "e">>
  /\ statefulCardSet = <<"a">>
  /\ "a" \in DOMAIN cardPool

\* C2: the name purged is the oldest name of the total set that is not in
\* the stateful set, and the others keep their order.
C2_PurgesOldestNonStateful ==
  [][ret'.purged # NoName =>
       \E i \in 1..Len(BeforePurge) :
         /\ BeforePurge[i] = ret'.purged
         /\ ret'.purged \notin Range(statefulCardSet')
         /\ \A j \in 1..(i - 1) : BeforePurge[j] \in Range(statefulCardSet')
         /\ cardSet' = Without(BeforePurge, ret'.purged)]_vars

\* capacity 4, no stateful card: a, b, c, d, e leaves b, c, d, e
C2_Witness ==
  /\ CAPACITY_CARDS = 4
  /\ ret.op = "getCard" /\ ret.cardName = "e" /\ ret.purged = "a"
  /\ cardSet = <<"b", "c", "d", "e">>
  /\ statefulCardSet = << >>
  /\ DOMAIN cardPool = {"b", "c", "d", "e"}

\* C3: after every call storage has as many keys as the total set has
\* names, every name of the total set has a storage entry, and the stateful
\* set is a subset of the total set.
C3_StorageMatchesTotalSet ==
  /\ Cardinality(DOMAIN cardPool) = Len(cardSet)
  /\ Range(cardSet) \subseteq DOMAIN cardPool
  /\ Range(statefulCardSet) \subseteq Range(cardSet)

\* C4: the total set holds at most CAPACITY_CARDS + 1 names and the stateful
\* set at most CAPACITY_STATEFUL_CARDS + 1.
C4_CapacityBound ==
  /\ Len(cardSet) <= CAPACITY_CARDS + 1
  /\ Len(statefulCardSet) <= CAPACITY_STATEFUL_CARDS + 1

\* a call that overflowed both sets and brought both back
C4_Witness ==
  /\ ret.dequeued # NoName /\ ret.purged # NoName
  /\ Len(cardSet) = CAPACITY_CARDS
  /\ Len(statefulCardSet) = CAPACITY_STATEFUL_CARDS

\* C5 as stated: a name dequeued from the stateful set is still in storage
\* and in the total set when the call that dequeued it returns.
C5_DequeuedSurvivesCall ==
  [][ret'.dequeued # NoName =>
       /\ ret'.dequeued \in DOMAIN cardPool'
       /\ ret'.dequeued \in Range(cardSet')]_vars

\* C5 amended: the dequeued name keeps its place in the total set and its
\* storage entry unless the second half of the same purge takes it, which
\* happens exactly when the total set is over capacity and the dequeued name
\* is its oldest non-stateful name; nothing but a purge removes a name.
C5_DequeuedSurvivesUnlessPurged ==
  [][/\ ret'.dequeued # NoName =>
          /\ ret'.dequeued \notin Range(statefulCardSet')
          /\ ret'.dequeued # ret'.purged =>
               /\ ret'.dequeued \in Range(cardSet')
               /\ Get(cardPool', ret'.dequeued) # undefined
               /\ Get(cardPool', ret'.dequeued) = Get(cardPool, ret'.dequeued)
          /\ ret'.dequeued = ret'.purged <=>
               /\ Len(BeforePurge) > CAPACITY_CARDS
               /\ \A j \in 1..Len(BeforePurge) :
                    BeforePurge[j] \in Range(statefulCardSet')
                      \/ \E i \in 1..j : BeforePurge[i] = ret'.dequeued
     /\ \A n \in CardName : Removed(n) => ret'.purged = n]_vars

\* a call dequeued a name and purged another: the dequeued name is still
\* stored and in the total set, no longer stateful
C5_Witness ==
  /\ ret.dequeued # NoName /\ ret.purged # NoName
  /\ ret.dequeued # ret.purged
  /\ ret.dequeued \in DOMAIN cardPool
  /\ ret.dequeued \in Range(cardSet)
  /\ ret.dequeued \notin Range(statefulCardSet)

\* C6: markCardInuse(name, statefulCard) on a name without a storage entry
\* stores exactly statefulCard under the name and makes the name the newest
\* of the total set and of the stateful set, without a call of the factory.
C6_RevivalInstallsCard ==
  [][\A n \in CardName : \A card \in StatefulCards(n) :
       (markCardInuse(n, card) /\ n \notin DOMAIN cardPool) =>
         /\ n \in DOMAIN cardPool'
         /\ cardPool'[n] = card
         /\ Last(cardSet') = n
         /\ Last(statefulCardSet') = n
         /\ ~ret'.factory]_vars

\* C7: a getCard that returns a card leaves the name in storage, mapped to
\* the card returned, and newest in the total set; a getCard that found or
\* built a card returns it, and its purge never takes the name of the call.
C7_FetchedCardIsNewest ==
  /\ (ret.op = "getCard" /\ IsAdaptiveCard(ret.result)) =>
       /\ ret.cardName \in DOMAIN cardPool
       /\ cardPool[ret.cardName] = ret.result
       /\ Last(cardSet) = ret.cardName
  /\ (ret.op = "getCard" /\ ret.factory /\ ~ret.threw) =>
       IsAdaptiveCard(ret.result)
  /\ (ret.op = "getCard" /\ ret.found) =>
       ret.result # undefined /\ Last(cardSet) = ret.cardName
  /\ ret.op = "getCard" => ret.purged # ret.cardName

\* a getCard that built a card while the total set was full: another name
\* was purged, the new one is stored and newest
C7_Witness ==
  /\ ret.op = "getCard" /\ ret.factory /\ ~ret.threw
  /\ ret.purged # NoName
  /\ IsAdaptiveCard(ret.result)
  /\ Last(cardSet) = ret.cardName
  /\ Len(cardSet) = CAPACITY_CARDS

\* C8 as stated, for two calls in a row: no purge lies between them, so they
\* never both call the factory for the same name.
C8_FactoryOncePerName ==
  [][~(ret.factory /\ ret'.factory /\ ret'.cardName = ret.cardName)]_vars

\* C8 amended: the factory is called only by a getCard with a payload on a
\* name without a storage entry; a getCard on a stored name returns the
\* stored card and leaves it in place whatever the payload; markCardInuse
\* never calls the factory.  A call of the factory that returned a card
\* leaves the name stored, and only a purge removes a stored name: a second
\* call of the factory for the name follows a purge of it, or a first call
\* that raised.
C8_FactoryOnlyOnMiss ==
  [][/\ ret'.factory =>
          /\ ret'.op = "getCard"
          /\ ret'.payload # NoPayload
          /\ ret'.cardName \notin DOMAIN cardPool
          /\ ~ret'.threw => ret'.cardName \in DOMAIN cardPool'
     /\ (ret'.op = "getCard" /\ ret'.cardName \in DOMAIN cardPool) =>
          /\ ~ret'.factory
          /\ ret'.result = cardPool[ret'.cardName]
          /\ cardPool'[ret'.cardName] = cardPool[ret'.cardName]
     /\ ret'.op = "markCardInuse" => ~ret'.factory
     /\ \A n \in CardName :
          (n \in DOMAIN cardPool /\ n \notin DOMAIN cardPool') =>
            ret'.purged = n
     /\ (ret.factory /\ ret'.factory /\ ret'.cardName = ret.cardName) =>
          ret.threw]_vars

\* a getCard with a payload on a stored name: the stored card comes back
C8_Witness ==
  /\ ret.op = "getCard" /\ ret.found /\ ret.payload # NoPayload
  /\ ~ret.factory
  /\ ret.cardName \in TwoPayloadNames
  /\ ret.result = createCardOnDemand(ret.cardName, "p2")

\* C9: a getCard whose factory raises raises, and leaves storage and both
\* sets as they were, the name in none of them; no purge runs.
C9_FailedFactoryLeavesPool ==
  [][/\ \A n \in CardName : \A bad \in BadPayloads :
          (getCard(n, bad) /\ ret'.factory) => ret'.threw
     /\ ret'.threw =>
          /\ ret'.op = "getCard" /\ ret'.factory
          /\ ~ret'.purgeRan
          /\ UNCHANGED <<cardPool, cardSet, statefulCardSet>>
          /\ ret'.cardName \notin DOMAIN cardPool'
          /\ ret'.cardName \notin Range(cardSet')
          /\ ret'.cardName \notin Range(statefulCardSet')]_vars

\* the factory raised while the total set was full and a stateful card was
\* queued
C9_Witness ==
  /\ ret.threw
  /\ Len(cardSet) = CAPACITY_CARDS
  /\ statefulCardSet # << >>
  /\ ret.cardName \notin DOMAIN cardPool

\* C10: on a name without a storage entry, getCard without a payload
\* returns undefined, markCardInuse without a card returns, and both leave
\* storage and the two sets as they were and run no purge.
C10_NothingToActOn ==
  [][\A n \in CardName :
       n \notin DOMAIN cardPool =>
         /\ getCard(n, NoPayload) =>
              /\ ret'.result = undefined
              /\ ~ret'.purgeRan
              /\ UNCHANGED <<cardPool, cardSet, statefulCardSet>>
         /\ markCardInuse(n, undefined) =>
              /\ ~ret'.purgeRan
              /\ UNCHANGED <<cardPool, cardSet, statefulCardSet>>]_vars

\* C11: markCardInuse(x) without a card, on a stored name that is already
\* the newest of the total set, leaves storage and both sets as they are;
\* the name is then still stored and newest, so a second call does the same.
C11_TouchOfNewestChangesNothing ==
  [][\A n \in CardName :
       (/\ markCardInuse(n, undefined)
        /\ n \in DOMAIN cardPool
        /\ cardSet # << >> /\ Last(cardSet) = n) =>
         /\ UNCHANGED <<cardPool, cardSet, statefulCardSet>>
         /\ ret'.purgeRan
         /\ ret'.dequeued = NoName /\ ret'.purged = NoName]_vars

\* the newest name of a full pool was touched: nothing was dequeued or purged
C11_Witness ==
  /\ ret.op = "markCardInuse" /\ ret.statefulCard = undefined /\ ret.found
  /\ ret.purgeRan /\ ret.dequeued = NoName /\ ret.purged = NoName
  /\ Last(cardSet) = ret.cardName
  /\ Len(cardSet) = CAPACITY_CARDS
  /\ Len(statefulCardSet) = CAPACITY_STATEFUL_CARDS

\* the stateful set as the purge of the step found it: the name of a call
\* that came with a card moved to its end
BeforeDequeue ==
  IF ret'.statefulCard = undefined THEN statefulCardSet
  ELSE Append(Without(statefulCardSet, ret'.cardName), ret'.cardName)

\* C13: one call takes at most one name out of the stateful set, its
\* oldest, and at most one name out of the total set and out of storage;
\* measured against the state before the call or against the sets as the
\* purge found them.
C13_OnePurgePerCall ==
  [][/\ \/ statefulCardSet' = BeforeDequeue /\ ret'.dequeued = NoName
        \/ /\ BeforeDequeue # << >>
           /\ ret'.dequeued = BeforeDequeue[1]
           /\ statefulCardSet' = Tail(BeforeDequeue)
     /\ \/ ~ret'.purgeRan /\ UNCHANGED <<cardSet, statefulCardSet, cardPool>>
        \/ cardSet' = BeforePurge /\ ret'.purged = NoName
        \/ /\ ret'.purged \in Range(BeforePurge)
           /\ cardSet' = Without(BeforePurge, ret'.purged)
     /\ Cardinality({n \in CardName : Removed(n)}) <= 1
     /\ Len(cardSet') >= Len(cardSet) - 1
     /\ Cardinality(DOMAIN cardPool') >= Cardinality(DOMAIN cardPool) - 1
     /\ Len(statefulCardSet') >= Len(statefulCardSet) - 1]_vars

\* one call dequeued the oldest stateful name and purged that same name
C13_Witness ==
  /\ ret.dequeued # NoName /\ ret.dequeued = ret.purged
  /\ ret.dequeued \notin DOMAIN cardPool
  /\ Len(cardSet) = CAPACITY_CARDS
  /\ Len(statefulCardSet) = CAPACITY_STATEFUL_CARDS

\* C14: between calls the total set holds at most CAPACITY_CARDS names and
\* the stateful set at most CAPACITY_STATEFUL_CARDS; a purge that finds the
\* total set over capacity finds a non-stateful name in it and purges one.
C14_TightCapacityBound ==
  /\ [](Len(cardSet) <= CAPACITY_CARDS)
  /\ [](Len(statefulCardSet) <= CAPACITY_STATEFUL_CARDS)
  /\ [][(ret'.purgeRan /\ Len(BeforePurge) > CAPACITY_CARDS) =>
          /\ Len(BeforePurge) = CAPACITY_CARDS + 1
          /\ ret'.purged # NoName
          /\ \E n \in Range(BeforePurge) : n \notin Range(statefulCardSet')]_vars

\* a purge brought the total set back to capacity past a stateful card at
\* its LRU end, with nothing to dequeue
C14_Witness ==
  /\ ret.purged # NoName /\ ret.dequeued = NoName
  /\ Len(cardSet) = CAPACITY_CARDS
  /\ Len(statefulCardSet) = CAPACITY_STATEFUL_CARDS
  /\ cardSet[1] \in Range(statefulCardSet)

\* C16: getCard, and markCardInuse without a card, leave the stateful set
\* as it is; a name is dequeued only by a markCardInuse that comes with a
\* card for another name.
C16_OnlyStatefulCallsChangeStatefulSet ==
  [][/\ ret'.op = "getCard" => UNCHANGED statefulCardSet
     /\ (ret'.op = "markCardInuse" /\ ret'.statefulCard = undefined) =>
          UNCHANGED statefulCardSet
     /\ \A n \in CardName :
          (n \in Range(statefulCardSet) /\ n \notin Range(statefulCardSet')) =>
            /\ ret'.op = "markCardInuse"
            /\ ret'.statefulCard # undefined
            /\ ret'.cardName # n
            /\ ret'.dequeued = n]_vars

\* a stateful card was fetched: newest in the total set, still stateful
C16_Witness ==
  /\ ret.op = "getCard" /\ ret.found
  /\ ret.cardName \in Range(statefulCardSet)
  /\ Last(cardSet) = ret.cardName
  /\ Len(cardSet) > 1

\* C17: markCardInuse(name, card) on a stored name leaves the stored card
\* in place, whatever card comes with the call.
C17_StoredCardIsKept ==
  [][\A n \in CardName : \A card \in StatefulCards(n) :
       (markCardInuse(n, card) /\ n \in DOMAIN cardPool) =>
         /\ n \in DOMAIN cardPool'
         /\ cardPool'[n] = cardPool[n]]_vars

\* a stored card built from the second payload outlived a stateful call,
\* which also comes with the card built from the first payload
C17_Witness ==
  /\ ret.op = "markCardInuse" /\ ret.statefulCard # undefined /\ ret.found
  /\ ret.cardName \in TwoPayloadNames
  /\ ret.cardName \in DOMAIN cardPool
  /\ cardPool[ret.cardName] = createCardOnDemand(ret.cardName, "p2")

\* position of a name in a set, oldest = 1
Pos(s, x) == CHOOSE i \in 1..Len(s) : s[i] = x

\* how many cards getCard still has to build before the purge reaches x:
\* the free room of the total set plus the non-stateful names up to x
EvictionDistance(cs, ss, capC, x) ==
  (capC - Len(cs)) +
  Cardinality({i \in 1..Pos(cs, x) : cs[i] \notin Range(ss)})

\* a step that leaves x alone: not a call on x, not a call with a card
LeavesAlone(x) ==
  /\ x \in Range(cardSet) /\ x \notin Range(statefulCardSet)
  /\ ret'.cardName # x
  /\ ret'.statefulCard = undefined

\* x is gone from storage and from the total set, or its distance is d
GoneOrWithin(x, d) ==
  \/ x \notin Range(cardSet') /\ x \notin DOMAIN cardPool'
  \/ /\ x \in Range(cardSet') /\ x \notin Range(statefulCardSet')
     /\ EvictionDistance(cardSet', statefulCardSet', CAPACITY_CARDS, x) <= d

\* C18: a non-stateful name x of the total set that is left alone is
\* purged within CAPACITY_CARDS calls of getCard that build a card: its
\* distance is between 1 and CAPACITY_CARDS, no call that leaves x alone
\* raises it, and each getCard that builds a card lowers it or purges x.
C18_PurgedWithinCapacityBuilds ==
  [][\A x \in CardName : LeavesAlone(x) =>
       LET d == EvictionDistance(cardSet, statefulCardSet, CAPACITY_CARDS, x)
       IN /\ 1 <= d /\ d <= CAPACITY_CARDS
          /\ GoneOrWithin(x, d)
          /\ (ret'.factory /\ ~ret'.threw) => GoneOrWithin(x, d - 1)]_vars

\* C18 as stated: each getCard with a payload on a name that is not stored
\* lowers the distance of x or purges x, so that CAPACITY_CARDS of them
\* purge it.
C18_PurgedWithinCapacityFetches ==
  [][\A x \in CardName : LeavesAlone(x) =>
       LET d == EvictionDistance(cardSet, statefulCardSet, CAPACITY_CARDS, x)
       IN (/\ ret'.op = "getCard" /\ ret'.payload # NoPayload
           /\ ret'.cardName \notin DOMAIN cardPool) =>
            GoneOrWithin(x, d - 1)]_vars

\* the last build purged a name that had been the newest of a full total
\* set, CAPACITY_CARDS builds away
C18_Witness ==
  /\ ret.op = "getCard" /\ ret.factory /\ ~ret.threw
  /\ ret.purged # NoName /\ ret.purged \notin DOMAIN cardPool
  /\ statefulCardSet = << >>
  /\ Len(cardSet) = CAPACITY_CARDS
  /\ \A n \in Range(cardSet) : n # "a"

\* C12: the constructor sets CAPACITY_CARDS to the larger of 4 and its
\* argument and CAPACITY_STATEFUL_CARDS to the quarter of it, rounded up;
\* so CAPACITY_CARDS >= 4 and 1 <= CAPACITY_STATEFUL_CARDS < CAPACITY_CARDS,
\* and no call changes either.
C12_CapacitiesClampedAndFixed ==
  /\ (ret.op = "new" =>
        CAPACITY_CARDS = IF ret.cardPoolCapacity > 4
                         THEN ret.cardPoolCapacity ELSE 4)
  /\ [](/\ CAPACITY_CARDS >= 4
        /\ CAPACITY_STATEFUL_CARDS >= 1
        /\ 4 * CAPACITY_STATEFUL_CARDS >= CAPACITY_CARDS
        /\ 4 * (CAPACITY_STATEFUL_CARDS - 1) < CAPACITY_CARDS
        /\ CAPACITY_STATEFUL_CARDS < CAPACITY_CARDS)
  /\ [][UNCHANGED <<CAPACITY_CARDS, CAPACITY_STATEFUL_CARDS>>]_vars

\* a pool above the floor, its quarter rounded up to 2, both stateful
\* places taken
C12_Witness ==
  /\ ret.op # "new"
  /\ CAPACITY_CARDS > 4 /\ 4 * CAPACITY_STATEFUL_CARDS > CAPACITY_CARDS
  /\ Len(statefulCardSet) = CAPACITY_STATEFUL_CARDS
  /\ Len(statefulCardSet) > 1

\* the last k names of a sequence
LastOf(s, k) == SubSeq(s, Len(s) - k + 1, Len(s))

\* C15: the stateful set, oldest first, is the last
\* min(CAPACITY_STATEFUL_CARDS, m) of the m names ever passed to
\* markCardInuse with a card, in the order of their latest such call; the
\* name of such a call is the newest stateful name when the call returns
\* and is not the name the call dequeues.
C15_StatefulSetIsLatestMarked ==
  /\ [](statefulCardSet =
          LastOf(marked, IF Len(marked) < CAPACITY_STATEFUL_CARDS
                         THEN Len(marked) ELSE CAPACITY_STATEFUL_CARDS))
  /\ []((ret.op = "markCardInuse" /\ ret.statefulCard # undefined) =>
          /\ statefulCardSet # << >>
          /\ Last(statefulCardSet) = ret.cardName
          /\ ret.dequeued # ret.cardName)

\* a call with a card for a name that had been dequeued before: the name is
\* stateful again, and the oldest of two other stateful names went
C15_Witness ==
  /\ ret.op = "markCardInuse" /\ ret.statefulCard # undefined
  /\ ret.dequeued # NoName
  /\ Len(statefulCardSet) > 1
  /\ Len(marked) > Len(statefulCardSet)
  /\ marked[1] = ret.dequeued

====
